---- MODULE Spec2Model ----
(***************************************************************************)
(* Model of masp_primitives/src/zip32.rs: the extended-key tree (master,   *)
(* child and internal derivation, projection to a viewing key, read/write)  *)
(* and the diversifier key (format-preserving encryption of a diversifier   *)
(* index, rejection-sampling search, address construction).                 *)
(*                                                                          *)
(* External collaborators are modelled by their contracts:                  *)
(*   - a 32-byte string is a digest in 0..DigestMod-1, its byte encoding    *)
(*     the digest followed by zero bytes;                                   *)
(*   - Blake2b / prf_expand are one deterministic mixing function of the    *)
(*     personalisation or domain tag and the input bytes;                   *)
(*   - the scalar field jubjub::Fr is Z_FrOrder, the prime-order subgroup   *)
(*     is the additive group Z_FrOrder with two fixed generators;           *)
(*   - FF1 is a keyed Feistel permutation of the NBytes-byte numeral        *)
(*     strings, radix 2.                                                    *)
(***************************************************************************)
EXTENDS Integers, Sequences, FiniteSets, TLC

VARIABLES
    overflow_checks, \* build profile: TRUE = arithmetic overflow panics (debug)
    status,          \* "running" | "panicked"
    xsk,             \* the ExtendedSpendingKey the caller holds
    xfvk,            \* the ExtendedFullViewingKey the caller holds
    m,               \* the master key xsk descends from
    path,            \* the child indices applied to m, one derive_child at a time
    pure,            \* TRUE while xsk was obtained from m by derive_child only
    steps,           \* number of key-changing operations since the last master()
    last,            \* the last operation, its arguments and what it returned
    pc,              \* find_diversifier: "idle" | "loop" | "done"
    f_dk,            \* find_diversifier: self
    f_start,         \* find_diversifier: the j it was called with
    f_j,             \* find_diversifier: the loop variable j
    f_ret,           \* find_diversifier: the value returned
    amt              \* the Amount the caller holds

vars == <<overflow_checks, status, xsk, xfvk, m, path, pure, steps, last,
          pc, f_dk, f_start, f_j, f_ret, amt>>
keyVars == <<xsk, xfvk, m, path, pure, steps>>
findVars == <<pc, f_dk, f_start, f_j, f_ret>>

(***************************************************************************)
(* Bounds of the model.                                                    *)
(***************************************************************************)
\* order of the scalar field and of the group in the model
FrOrder == 5
\* number of distinct 32-byte strings in the model
DigestMod == 3
\* bytes of a diversifier index and of a diversifier (11 in the code)
NBytes == 2
\* key-changing operations explored after a master()
MaxSteps == 2
\* the largest amount of one asset (21,000,000 * 10^8 in the code)
MAX_MONEY == 2
\* bits of a signed amount (64 in the code); 2 * MAX_MONEY fits, as there
I64Bits == 4

(***************************************************************************)
(* Outcomes: panic, Result and Option.                                     *)
(***************************************************************************)
Panic == [panic |-> TRUE]
Val(v) == [panic |-> FALSE, val |-> v]
Ok(v) == [ok |-> TRUE, val |-> v]
Err(e) == [ok |-> FALSE, err |-> e]
Some(v) == [some |-> TRUE, val |-> v]
None == [some |-> FALSE]

(***************************************************************************)
(* Fixed-width integers.  A u32 is its top bit and its low 31 bits.        *)
(***************************************************************************)
U32(hi, lo) == [hi |-> hi, lo |-> lo]
\* x + (1 << 31) on a u32: overflows when the top bit of x is set
U32AddTopBit(x) ==
    IF x.hi = 0 THEN U32(1, x.lo)
    ELSE IF overflow_checks THEN Panic
    ELSE U32(0, x.lo)
\* x + 1 on a u8
U8AddOne(x) ==
    IF x < 255 THEN Val(x + 1)
    ELSE IF overflow_checks THEN Panic
    ELSE Val(0)
\* byteorder::LittleEndian::write_u32 / read_u32
write_u32_le(x) ==
    << x.lo % 256, (x.lo \div 256) % 256, (x.lo \div 65536) % 256,
       (x.lo \div 16777216) + 128 * x.hi >>
read_u32_le(b) ==
    U32(b[4] \div 128, b[1] + 256 * b[2] + 65536 * b[3] + 16777216 * (b[4] % 128))

(***************************************************************************)
(* Hashing.  A hash output is a number below 9973; its first 32 bytes      *)
(* and its last 32 bytes are two digests read off it.                      *)
(***************************************************************************)
\* a deterministic function of the byte string: its length and its non-zero
\* bytes with their positions, folded in order
RECURSIVE MixFrom(_, _, _)
MixFrom(h, s, ks) ==
    IF ks = {} THEN h
    ELSE LET k == CHOOSE x \in ks : \A y \in ks : x <= y
         IN  MixFrom((h * 31 + s[k] * 7 + k) % 9973, s, ks \ {k})
Mix(s) == MixFrom(17 + Len(s), s, {k \in DOMAIN s : s[k] # 0})
\* the 32-byte and 4-byte encodings of a digest, and their decoding
Bytes32(v) == [k \in 1..32 |-> IF k = 1 THEN v ELSE 0]
Bytes4(v) == [k \in 1..4 |-> IF k = 1 THEN v ELSE 0]
FromBytes(b) == b[1]
First32(h) == h % DigestMod
Last32(h) == (h \div DigestMod) % DigestMod
\* jubjub::Fr::from_bytes_wide: reduction of 64 bytes into the scalar field
from_bytes_wide(h) == h % FrOrder

ZIP32_SAPLING_MASTER_PERSONALIZATION == 201
ZIP32_SAPLING_FVFP_PERSONALIZATION == 202
ZIP32_SAPLING_INT_PERSONALIZATION == 203
\* Blake2bParams::new().hash_length(n).personal(p) over the concatenated data
Blake2b(personal, data) == Mix(<<personal>> \o data)
\* keys::prf_expand_vec(sk, ts): keyed expansion of the concatenation of ts
prf_expand_vec(sk, ts) == Mix(<<204, sk>> \o ts)
prf_expand(sk, t) == prf_expand_vec(sk, t)

(***************************************************************************)
(* The group and the keys of keys.rs.                                      *)
(***************************************************************************)
SPENDING_KEY_GENERATOR == 1
PROOF_GENERATION_KEY_GENERATOR == 2
FrAdd(a, b) == (a + b) % FrOrder
PointAdd(p, q) == (p + q) % FrOrder
PointMul(g, s) == (g * s) % FrOrder

\* ExpandedSpendingKey::from_spending_key
from_spending_key(sk) ==
    [ask |-> from_bytes_wide(prf_expand(sk, <<0>>)),
     nsk |-> from_bytes_wide(prf_expand(sk, <<1>>)),
     ovk |-> First32(prf_expand(sk, <<2>>))]
\* FullViewingKey::from_expanded_spending_key
from_expanded_spending_key(expsk) ==
    [ak |-> PointMul(SPENDING_KEY_GENERATOR, expsk.ask),
     nk |-> PointMul(PROOF_GENERATION_KEY_GENERATOR, expsk.nsk),
     ovk |-> expsk.ovk]
\* ExpandedSpendingKey::to_bytes and FullViewingKey::to_bytes: 96 bytes
expsk_to_bytes(expsk) == Bytes32(expsk.ask) \o Bytes32(expsk.nsk) \o Bytes32(expsk.ovk)
fvk_to_bytes(fvk) == Bytes32(fvk.ak) \o Bytes32(fvk.nk) \o Bytes32(fvk.ovk)
\* a canonical scalar or point encoding: a value of the field, zero-padded
IsCanonical(b) == b[1] \in 0..(FrOrder - 1) /\ \A k \in 2..32 : b[k] = 0
\* ExpandedSpendingKey::read and FullViewingKey::read, from 96 bytes
ExpandedSpendingKey_read(b) ==
    IF IsCanonical(SubSeq(b, 1, 32)) /\ IsCanonical(SubSeq(b, 33, 64))
    THEN Ok([ask |-> b[1], nsk |-> b[33], ovk |-> FromBytes(SubSeq(b, 65, 96))])
    ELSE Err("InvalidData")
FullViewingKey_read(b) ==
    IF IsCanonical(SubSeq(b, 1, 32)) /\ IsCanonical(SubSeq(b, 33, 64))
    THEN Ok([ak |-> b[1], nk |-> b[33], ovk |-> FromBytes(SubSeq(b, 65, 96))])
    ELSE Err("InvalidData")

(***************************************************************************)
(* zip32.rs: helpers, fingerprint, child index.                            *)
(***************************************************************************)
\* a faulty derivation: the number of derivations made so far enters the hash
derive_child_ovk_Counting(parent, i_l) ==
    First32(prf_expand_vec(i_l, <<21, steps>> \o Bytes32(parent)))

derive_child_ovk(parent, i_l) ==
    First32(prf_expand_vec(i_l, <<21>> \o Bytes32(parent)))

FvkFingerprint_from(fvk) == Blake2b(ZIP32_SAPLING_FVFP_PERSONALIZATION, fvk_to_bytes(fvk))
\* a faulty tag: the last bytes of the fingerprint
FvkFingerprint_tag_Tail(fp) == Last32(fp)
FvkFingerprint_tag(fp) == First32(fp)
FvkTag_master == 0

Hardened(i) == [hardened |-> TRUE, i |-> i]
NonHardened(i) == [hardened |-> FALSE, i |-> i]
ChildIndex_from_index(i) ==
    IF i.hi = 1 THEN Hardened(U32(0, i.lo)) ELSE NonHardened(i)
ChildIndex_master == ChildIndex_from_index(U32(0, 0))
ChildIndex_value(c) ==
    IF c.hardened THEN U32AddTopBit(c.i) ELSE c.i

DiversifierKey_master(sk_m) == First32(prf_expand(sk_m, <<16>>))
DiversifierKey_derive_child(dk, i_l) ==
    First32(prf_expand_vec(i_l, <<22>> \o Bytes32(dk)))

(***************************************************************************)
(* zip32.rs: ExtendedSpendingKey.                                          *)
(***************************************************************************)
ExtendedSpendingKey_master(seed) ==
    LET i == Blake2b(ZIP32_SAPLING_MASTER_PERSONALIZATION, seed)
        sk_m == First32(i)
        c_m == Last32(i)
    IN  [depth |-> 0,
         parent_fvk_tag |-> FvkTag_master,
         child_index |-> ChildIndex_master,
         chain_code |-> c_m,
         expsk |-> from_spending_key(sk_m),
         dk |-> DiversifierKey_master(sk_m)]

\* a faulty expansion: the non-hardened branch hashes the spending key bytes
XskChildExpansion_SpendingBytes(self, i) ==
    IF i.hardened
    THEN LET v == U32AddTopBit(i.i)
         IN  IF v = Panic THEN Panic
             ELSE Val(prf_expand_vec(self.chain_code,
                      <<17>> \o expsk_to_bytes(self.expsk) \o Bytes32(self.dk)
                           \o write_u32_le(v)))
    ELSE Val(prf_expand_vec(self.chain_code,
             <<18>> \o expsk_to_bytes(self.expsk) \o Bytes32(self.dk)
                  \o write_u32_le(i.i)))

\* the 64-byte expansion of derive_child, or Panic
XskChildExpansion(self, i) ==
    LET fvk == from_expanded_spending_key(self.expsk)
    IN  IF i.hardened
        THEN LET v == U32AddTopBit(i.i)
             IN  IF v = Panic THEN Panic
                 ELSE Val(prf_expand_vec(self.chain_code,
                          <<17>> \o expsk_to_bytes(self.expsk) \o Bytes32(self.dk)
                               \o write_u32_le(v)))
        ELSE Val(prf_expand_vec(self.chain_code,
                 <<18>> \o fvk_to_bytes(fvk) \o Bytes32(self.dk) \o write_u32_le(i.i)))

ExtendedSpendingKey_derive_child(self, i) ==
    LET fvk == from_expanded_spending_key(self.expsk)
        tmp == XskChildExpansion(self, i)
        i_l == First32(tmp.val)
        c_i == Last32(tmp.val)
        depth == U8AddOne(self.depth)
    IN  IF tmp = Panic \/ depth = Panic THEN Panic
        ELSE [depth |-> depth.val,
              parent_fvk_tag |-> FvkFingerprint_tag(FvkFingerprint_from(fvk)),
              child_index |-> i,
              chain_code |-> c_i,
              expsk |->
                  [ask |-> FrAdd(from_bytes_wide(prf_expand(i_l, <<19>>)), self.expsk.ask),
                   nsk |-> FrAdd(from_bytes_wide(prf_expand(i_l, <<20>>)), self.expsk.nsk),
                   ovk |-> derive_child_ovk(self.expsk.ovk, i_l)],
              dk |-> DiversifierKey_derive_child(self.dk, i_l)]

\* the loop of from_path over path[lo..hi], the iterations of the first half
\* before those of the second; a panic ends it
RECURSIVE FromPathLoop(_, _, _, _)
FromPathLoop(key, p, lo, hi) ==
    IF key = Panic \/ lo > hi THEN key
    ELSE IF lo = hi THEN ExtendedSpendingKey_derive_child(key, p[lo])
    ELSE LET mid == (lo + hi) \div 2
             half == FromPathLoop(key, p, lo, mid)
         IN  FromPathLoop(half, p, mid + 1, hi)
\* a faulty from_path: the first index of the path is skipped
ExtendedSpendingKey_from_path_SkipFirst(master, p) == FromPathLoop(master, p, 2, Len(p))
ExtendedSpendingKey_from_path(master, p) == FromPathLoop(master, p, 1, Len(p))

\* the digest i of derive_internal and sapling_derive_internal_fvk
InternalDigest(fvk, dk) ==
    Blake2b(ZIP32_SAPLING_INT_PERSONALIZATION, fvk_to_bytes(fvk) \o Bytes32(dk))

\* a faulty derivation: the spend authorizing key is offset like nsk
ExtendedSpendingKey_derive_internal_Rekeyed(self) ==
    LET i == First32(InternalDigest(from_expanded_spending_key(self.expsk), self.dk))
        i_nsk == from_bytes_wide(prf_expand(i, <<23>>))
        r == prf_expand(i, <<24>>)
    IN  [depth |-> self.depth,
         parent_fvk_tag |-> self.parent_fvk_tag,
         child_index |-> self.child_index,
         chain_code |-> self.chain_code,
         expsk |-> [ask |-> FrAdd(i_nsk, self.expsk.ask),
                    nsk |-> FrAdd(i_nsk, self.expsk.nsk),
                    ovk |-> Last32(r)],
         dk |-> First32(r)]

ExtendedSpendingKey_derive_internal(self) ==
    LET i == First32(InternalDigest(from_expanded_spending_key(self.expsk), self.dk))
        i_nsk == from_bytes_wide(prf_expand(i, <<23>>))
        r == prf_expand(i, <<24>>)
    IN  [depth |-> self.depth,
         parent_fvk_tag |-> self.parent_fvk_tag,
         child_index |-> self.child_index,
         chain_code |-> self.chain_code,
         expsk |-> [ask |-> self.expsk.ask,
                    nsk |-> FrAdd(i_nsk, self.expsk.nsk),
                    ovk |-> Last32(r)],
         dk |-> First32(r)]

\* a faulty header: the child index is written without the hardened offset
WriteHeader_RawIndex(self) ==
    Val(<<self.depth>> \o Bytes4(self.parent_fvk_tag) \o write_u32_le(self.child_index.i))

\* the 9 bytes before the chain code, or Panic
WriteHeader(self) ==
    LET v == ChildIndex_value(self.child_index)
    IN  IF v = Panic THEN Panic
        ELSE Val(<<self.depth>> \o Bytes4(self.parent_fvk_tag) \o write_u32_le(v))

ExtendedSpendingKey_write(self) ==
    LET h == WriteHeader(self)
    IN  IF h = Panic THEN Panic
        ELSE Ok(h.val \o Bytes32(self.chain_code) \o expsk_to_bytes(self.expsk)
                      \o Bytes32(self.dk))

ExtendedSpendingKey_read(b) ==
    IF Len(b) < 137 THEN Err("UnexpectedEof")
    ELSE LET expsk == ExpandedSpendingKey_read(SubSeq(b, 42, 137))
         IN  IF ~expsk.ok THEN expsk
             ELSE IF Len(b) < 169 THEN Err("UnexpectedEof")
             ELSE Ok([depth |-> b[1],
                      parent_fvk_tag |-> FromBytes(SubSeq(b, 2, 5)),
                      child_index |-> ChildIndex_from_index(read_u32_le(SubSeq(b, 6, 9))),
                      chain_code |-> FromBytes(SubSeq(b, 10, 41)),
                      expsk |-> expsk.val,
                      dk |-> FromBytes(SubSeq(b, 138, 169))])

(***************************************************************************)
(* zip32.rs: ExtendedFullViewingKey.                                       *)
(***************************************************************************)
ExtendedFullViewingKey_from(k) ==
    [depth |-> k.depth,
     parent_fvk_tag |-> k.parent_fvk_tag,
     child_index |-> k.child_index,
     chain_code |-> k.chain_code,
     fvk |-> from_expanded_spending_key(k.expsk),
     dk |-> k.dk]

ExtendedFullViewingKey_derive_child(self, i) ==
    IF i.hardened THEN Err("()")
    ELSE LET tmp == prf_expand_vec(self.chain_code,
                        <<18>> \o fvk_to_bytes(self.fvk) \o Bytes32(self.dk)
                             \o write_u32_le(i.i))
             i_l == First32(tmp)
             c_i == Last32(tmp)
             depth == U8AddOne(self.depth)
             i_ask == from_bytes_wide(prf_expand(i_l, <<19>>))
             i_nsk == from_bytes_wide(prf_expand(i_l, <<20>>))
         IN  IF depth = Panic THEN Panic
             ELSE Ok([depth |-> depth.val,
                      parent_fvk_tag |-> FvkFingerprint_tag(FvkFingerprint_from(self.fvk)),
                      child_index |-> i,
                      chain_code |-> c_i,
                      fvk |-> [ak |-> PointAdd(PointMul(SPENDING_KEY_GENERATOR, i_ask),
                                               self.fvk.ak),
                               nk |-> PointAdd(PointMul(PROOF_GENERATION_KEY_GENERATOR, i_nsk),
                                               self.fvk.nk),
                               ovk |-> derive_child_ovk(self.fvk.ovk, i_l)],
                      dk |-> DiversifierKey_derive_child(self.dk, i_l)])

\* a faulty derivation: the nullifier key is offset along the wrong generator
sapling_derive_internal_fvk_SpendingGenerator(fvk, dk) ==
    LET i == First32(InternalDigest(fvk, dk))
        i_nsk == from_bytes_wide(prf_expand(i, <<23>>))
        r == prf_expand(i, <<24>>)
    IN  << [ak |-> fvk.ak,
            nk |-> PointAdd(PointMul(SPENDING_KEY_GENERATOR, i_nsk), fvk.nk),
            ovk |-> Last32(r)],
           First32(r) >>

\* (fvk_internal, dk_internal)
sapling_derive_internal_fvk(fvk, dk) ==
    LET i == First32(InternalDigest(fvk, dk))
        i_nsk == from_bytes_wide(prf_expand(i, <<23>>))
        r == prf_expand(i, <<24>>)
    IN  << [ak |-> fvk.ak,
            nk |-> PointAdd(PointMul(PROOF_GENERATION_KEY_GENERATOR, i_nsk), fvk.nk),
            ovk |-> Last32(r)],
           First32(r) >>

ExtendedFullViewingKey_derive_internal(self) ==
    LET r == sapling_derive_internal_fvk(self.fvk, self.dk)
    IN  [depth |-> self.depth,
         parent_fvk_tag |-> self.parent_fvk_tag,
         child_index |-> self.child_index,
         chain_code |-> self.chain_code,
         fvk |-> r[1],
         dk |-> r[2]]

ExtendedFullViewingKey_write(self) ==
    LET h == WriteHeader(self)
    IN  IF h = Panic THEN Panic
        ELSE Ok(h.val \o Bytes32(self.chain_code) \o fvk_to_bytes(self.fvk)
                      \o Bytes32(self.dk))

ExtendedFullViewingKey_read(b) ==
    IF Len(b) < 137 THEN Err("UnexpectedEof")
    ELSE LET fvk == FullViewingKey_read(SubSeq(b, 42, 137))
         IN  IF ~fvk.ok THEN fvk
             ELSE IF Len(b) < 169 THEN Err("UnexpectedEof")
             ELSE Ok([depth |-> b[1],
                      parent_fvk_tag |-> FromBytes(SubSeq(b, 2, 5)),
                      child_index |-> ChildIndex_from_index(read_u32_le(SubSeq(b, 6, 9))),
                      chain_code |-> FromBytes(SubSeq(b, 10, 41)),
                      fvk |-> fvk.val,
                      dk |-> FromBytes(SubSeq(b, 138, 169))])

(***************************************************************************)
(* zip32.rs: DiversifierIndex and DiversifierKey.                          *)
(***************************************************************************)
DiversifierIndex_new == [k \in 1..NBytes |-> 0]

\* increment: the index after the call, and whether it returned Ok(())
RECURSIVE IncrementLoop(_, _)
IncrementLoop(j, k) ==
    IF k > NBytes THEN [j |-> j, ok |-> FALSE]
    ELSE LET j2 == [j EXCEPT ![k] = (j[k] + 1) % 256]
         IN  IF j2[k] # 0 THEN [j |-> j2, ok |-> TRUE]
             ELSE IncrementLoop(j2, k + 1)
\* a faulty increment: the carry runs from the last byte to the first
RECURSIVE IncrementLoopDown(_, _)
IncrementLoopDown(j, k) ==
    IF k < 1 THEN [j |-> j, ok |-> FALSE]
    ELSE LET j2 == [j EXCEPT ![k] = (j[k] + 1) % 256]
         IN  IF j2[k] # 0 THEN [j |-> j2, ok |-> TRUE]
             ELSE IncrementLoopDown(j2, k - 1)
DiversifierIndex_increment_BigEndian(j) == IncrementLoopDown(j, NBytes)
\* a faulty increment: the first byte is advanced and no carry is taken
DiversifierIndex_increment_NoCarry(j) ==
    LET j2 == [j EXCEPT ![1] = (j[1] + 1) % 256]
    IN  [j |-> j2, ok |-> j2[1] # 0]
DiversifierIndex_increment(j) == IncrementLoop(j, 1)

\* fpe::ff1::BinaryNumeralString: the bits of the bytes, each byte least
\* significant bit first
from_bytes_le(b) ==
    [n \in 1..(8 * Len(b)) |-> (b[((n - 1) \div 8) + 1] \div (2 ^ ((n - 1) % 8))) % 2]
RECURSIVE ByteOfBits(_, _, _)
ByteOfBits(x, k, t) ==
    IF t > 7 THEN 0
    ELSE x[8 * (k - 1) + t + 1] * (2 ^ t) + ByteOfBits(x, k, t + 1)
to_bytes_le(x) == [k \in 1..(Len(x) \div 8) |-> ByteOfBits(x, k, 0)]

\* FF1: NUM_2 and STR_2 of a numeral string, first numeral most significant
RECURSIVE NumFrom(_, _, _)
NumFrom(x, k, acc) ==
    IF k > Len(x) THEN acc ELSE NumFrom(x, k + 1, 2 * acc + x[k])
Num(x) == NumFrom(x, 1, 0)
Str(c, w) == [n \in 1..w |-> (c \div (2 ^ (w - n))) % 2]
\* FF1: the round function, keyed by the diversifier key
FF1Round(key, i, b) == Mix(<<205, key, i, b>>)
FF1Rounds == 10
\* FF1: the Feistel rounds on the numbers of the two halves, each of w numerals
RECURSIVE FF1EncryptFrom(_, _, _, _, _)
FF1EncryptFrom(key, a, b, w, i) ==
    IF i >= FF1Rounds THEN Str(a, w) \o Str(b, w)
    ELSE FF1EncryptFrom(key, b, (a + FF1Round(key, i, b)) % (2 ^ w), w, i + 1)
RECURSIVE FF1DecryptFrom(_, _, _, _, _)
FF1DecryptFrom(key, a, b, w, i) ==
    IF i < 0 THEN Str(a, w) \o Str(b, w)
    ELSE FF1DecryptFrom(key, (b - FF1Round(key, i, a)) % (2 ^ w), a, w, i - 1)
\* FF1::<Aes256>::new(&self.0, 2)
FF1_new(dk) == dk
FF1_encrypt(ff, x) ==
    LET u == Len(x) \div 2
    IN  FF1EncryptFrom(ff, Num(SubSeq(x, 1, u)), Num(SubSeq(x, u + 1, Len(x))), u, 0)
FF1_decrypt(ff, x) ==
    LET u == Len(x) \div 2
    IN  FF1DecryptFrom(ff, Num(SubSeq(x, 1, u)), Num(SubSeq(x, u + 1, Len(x))), u,
                       FF1Rounds - 1)

\* Diversifier::g_d: the point of a diversifier, None when it has none
g_d(d) ==
    LET h == Mix(<<219>> \o d)
    IN  IF h % 2 = 0 THEN Some(1 + ((h \div 2) % (FrOrder - 1))) ELSE None

try_diversifier_internal(ff, j) ==
    LET enc == FF1_encrypt(ff, from_bytes_le(j))
        d_j == to_bytes_le(enc)
    IN  IF g_d(d_j).some THEN Some(d_j) ELSE None

DiversifierKey_diversifier(dk, j) == try_diversifier_internal(FF1_new(dk), j)

\* a faulty diversifier_index: it encrypts where it must decrypt
DiversifierKey_diversifier_index_Encrypt(dk, d) ==
    to_bytes_le(FF1_encrypt(FF1_new(dk), from_bytes_le(d)))

DiversifierKey_diversifier_index(dk, d) ==
    to_bytes_le(FF1_decrypt(FF1_new(dk), from_bytes_le(d)))

\* a faulty iteration: the error of increment is ignored
FindIteration_IgnoreOverflow(ff, j) ==
    LET t == try_diversifier_internal(ff, j)
        inc == DiversifierIndex_increment(j)
    IN  IF t.some THEN [done |-> TRUE, ret |-> Some(<<j, t.val>>), j |-> j]
        ELSE [done |-> FALSE, ret |-> None, j |-> inc.j]

\* one iteration of the loop of find_diversifier
FindIteration(ff, j) ==
    LET t == try_diversifier_internal(ff, j)
        inc == DiversifierIndex_increment(j)
    IN  IF t.some THEN [done |-> TRUE, ret |-> Some(<<j, t.val>>), j |-> j]
        ELSE IF ~inc.ok THEN [done |-> TRUE, ret |-> None, j |-> inc.j]
        ELSE [done |-> FALSE, ret |-> None, j |-> inc.j]
RECURSIVE FindLoop(_, _)
FindLoop(ff, j) ==
    LET it == FindIteration(ff, j)
    IN  IF it.done THEN it.ret ELSE FindLoop(ff, it.j)
DiversifierKey_find_diversifier(dk, j) == FindLoop(FF1_new(dk), j)

(***************************************************************************)
(* Addresses.                                                              *)
(***************************************************************************)
\* ViewingKey::ivk: the incoming viewing key, a scalar
ivk(fvk) == Mix(<<207, fvk.ak, fvk.nk>>) % FrOrder
\* ViewingKey::to_payment_address: None without a point for the diversifier
\* or when the transmission key is the identity
to_payment_address(fvk, d) ==
    LET g == g_d(d)
        pk_d == PointMul(g.val, ivk(fvk))
    IN  IF ~g.some THEN None
        ELSE IF pk_d = 0 THEN None
        ELSE Some([diversifier |-> d, pk_d |-> pk_d])

\* a faulty address: it searches upwards from j for a valid diversifier
sapling_address_Searching(fvk, dk, j) ==
    LET r == DiversifierKey_find_diversifier(dk, j)
    IN  IF r.some THEN to_payment_address(fvk, r.val[2]) ELSE None

sapling_address(fvk, dk, j) ==
    LET d == DiversifierKey_diversifier(dk, j)
    IN  IF d.some THEN to_payment_address(fvk, d.val) ELSE None

\* a faulty search: the address is paired with the index the search began at
sapling_find_address_StartIndex(fvk, dk, j) ==
    LET r == DiversifierKey_find_diversifier(dk, j)
        addr == to_payment_address(fvk, r.val[2])
    IN  IF ~r.some THEN None
        ELSE IF addr.some THEN Some(<<j, addr.val>>) ELSE None

sapling_find_address(fvk, dk, j) ==
    LET r == DiversifierKey_find_diversifier(dk, j)
        addr == to_payment_address(fvk, r.val[2])
    IN  IF ~r.some THEN None
        ELSE IF addr.some THEN Some(<<r.val[1], addr.val>>) ELSE None

\* Option::unwrap
unwrap(o) == IF o.some THEN Val(o.val) ELSE Panic

\* a faulty default address: the search starts at index 1
sapling_default_address_FromOne(fvk, dk) ==
    unwrap(sapling_find_address(fvk, dk, [DiversifierIndex_new EXCEPT ![1] = 1]))

sapling_default_address(fvk, dk) ==
    unwrap(sapling_find_address(fvk, dk, DiversifierIndex_new))

ExtendedFullViewingKey_address(self, j) == sapling_address(self.fvk, self.dk, j)
ExtendedFullViewingKey_find_address(self, j) == sapling_find_address(self.fvk, self.dk, j)
ExtendedFullViewingKey_default_address(self) == sapling_default_address(self.fvk, self.dk)
ExtendedSpendingKey_default_address(self) ==
    ExtendedFullViewingKey_default_address(ExtendedFullViewingKey_from(self))

(***************************************************************************)
(* transaction/components/amount.rs.  An Amount is its BTreeMap: a         *)
(* function from the asset types it stores to their i64 values.            *)
(***************************************************************************)
I64_MAX == 2 ^ (I64Bits - 1) - 1
I64_MIN == -(2 ^ (I64Bits - 1))
\* the result of +, - or * on i64 whose exact value is x
I64Checked(x) ==
    IF I64_MIN <= x /\ x <= I64_MAX THEN Val(x)
    ELSE IF overflow_checks THEN Panic
    ELSE Val(((x - I64_MIN) % (2 ^ I64Bits)) + I64_MIN)
\* amount.try_into() for an integer of a wider type
TryIntoI64(v) == IF I64_MIN <= v /\ v <= I64_MAX THEN Ok(v) ELSE Err("()")
\* the range test of from, add, sub and mul
InRange_Wide(v) == -MAX_MONEY - 1 <= v /\ v <= MAX_MONEY + 1
InRange(v) == -MAX_MONEY <= v /\ v <= MAX_MONEY

\* BTreeMap::insert, remove, and iter in key order
BTreeMap_insert(a, t, v) == [u \in DOMAIN a \cup {t} |-> IF u = t THEN v ELSE a[u]]
BTreeMap_remove(a, t) == [u \in DOMAIN a \ {t} |-> a[u]]
RECURSIVE SortedSeq(_)
SortedSeq(S) ==
    IF S = {} THEN << >>
    ELSE LET x == CHOOSE x \in S : \A y \in S : x <= y
         IN  <<x>> \o SortedSeq(S \ {x})
Amount_components(a) ==
    LET ks == SortedSeq(DOMAIN a) IN [k \in 1..Len(ks) |-> <<ks[k], a[ks[k]]>>]
Amount_asset_types(a) == SortedSeq(DOMAIN a)

Amount_zero == [t \in {} |-> 0]
\* Index<&Unit>
Amount_index(a, t) == IF t \in DOMAIN a THEN a[t] ELSE 0

Amount_from_nonnegative(atype, v) ==
    LET amount == TryIntoI64(v)
    IN  IF ~amount.ok THEN Err("()")
        ELSE IF amount.val = 0 THEN Ok(Amount_zero)
        ELSE IF 0 <= amount.val /\ amount.val <= MAX_MONEY
             THEN Ok(BTreeMap_insert(Amount_zero, atype, amount.val))
        ELSE Err("()")

Amount_from(atype, v) ==
    LET amount == TryIntoI64(v)
    IN  IF ~amount.ok THEN Err("()")
        ELSE IF amount.val = 0 THEN Ok(Amount_zero)
        ELSE IF InRange(amount.val)
             THEN Ok(BTreeMap_insert(Amount_zero, atype, amount.val))
        ELSE Err("()")

\* the loop of add over the components cs of rhs, from the k-th on
RECURSIVE AddLoop(_, _, _)
AddLoop(self, cs, k) ==
    IF k > Len(cs) THEN Val(self)
    ELSE LET atype == cs[k][1]
             ent == I64Checked(Amount_index(self, atype) + cs[k][2])
         IN  IF ent = Panic THEN Panic
             ELSE IF ent.val = 0 THEN AddLoop(BTreeMap_remove(self, atype), cs, k + 1)
             ELSE IF InRange(ent.val)
                  THEN AddLoop(BTreeMap_insert(self, atype, ent.val), cs, k + 1)
             ELSE Panic
Amount_add(self, rhs) == AddLoop(self, Amount_components(rhs), 1)
Amount_add_assign(self, rhs) == Amount_add(self, rhs)

RECURSIVE SubLoop(_, _, _)
SubLoop(self, cs, k) ==
    IF k > Len(cs) THEN Val(self)
    ELSE LET atype == cs[k][1]
             ent == I64Checked(Amount_index(self, atype) - cs[k][2])
         IN  IF ent = Panic THEN Panic
             ELSE IF ent.val = 0 THEN SubLoop(BTreeMap_remove(self, atype), cs, k + 1)
             ELSE IF InRange(ent.val)
                  THEN SubLoop(BTreeMap_insert(self, atype, ent.val), cs, k + 1)
             ELSE Panic
Amount_sub(self, rhs) == SubLoop(self, Amount_components(rhs), 1)
Amount_sub_assign(self, rhs) == Amount_sub(self, rhs)

\* the loop of mul over the components cs of self
RECURSIVE MulLoop(_, _, _, _)
MulLoop(self, cs, rhs, k) ==
    IF k > Len(cs) THEN Val(self)
    ELSE LET ent == I64Checked(cs[k][2] * rhs)
         IN  IF ent = Panic THEN Panic
             ELSE IF InRange(ent.val)
                  THEN MulLoop(BTreeMap_insert(self, cs[k][1], ent.val), cs, rhs, k + 1)
             ELSE Panic
Amount_mul(self, rhs) == MulLoop(self, Amount_components(self), rhs, 1)

\* Sum: iter.fold(Self::zero(), Add::add)
RECURSIVE SumFold(_, _, _)
SumFold(acc, items, k) ==
    IF k > Len(items) THEN Val(acc)
    ELSE LET r == Amount_add(acc, items[k])
         IN  IF r = Panic THEN Panic ELSE SumFold(r.val, items, k + 1)
Amount_sum(items) == SumFold(Amount_zero, items, 1)

Amount_project(self, index) ==
    LET r == Amount_from(index, Amount_index(self, index))
    IN  IF r.ok THEN Val(r.val) ELSE Panic
Amount_reject(self, index) ==
    LET p == Amount_project(self, index)
    IN  IF p = Panic THEN Panic ELSE Amount_sub(self, p.val)

\* the loop of partial_cmp over the components cs of self; diff starts as other
RECURSIVE CmpLoop(_, _, _)
CmpLoop(diff, cs, k) ==
    IF k > Len(cs) THEN Val(diff)
    ELSE LET atype == cs[k][1]
             ent == I64Checked(Amount_index(diff, atype) - cs[k][2])
         IN  IF ent = Panic THEN Panic
             ELSE IF ent.val = 0 THEN CmpLoop(BTreeMap_remove(diff, atype), cs, k + 1)
             ELSE CmpLoop(BTreeMap_insert(diff, atype, ent.val), cs, k + 1)
Amount_partial_cmp(self, other) ==
    LET diff == CmpLoop(other, Amount_components(self), 1)
    IN  IF diff = Panic THEN Panic
        ELSE IF \A t \in DOMAIN diff.val : diff.val[t] = 0 THEN Val(Some("Equal"))
        ELSE IF \A t \in DOMAIN diff.val : diff.val[t] >= 0 THEN Val(Some("Less"))
        ELSE IF \A t \in DOMAIN diff.val : diff.val[t] <= 0 THEN Val(Some("Greater"))
        ELSE Val(None)

\* AssetType: its 32-byte identifier, and the asset type of an identifier
AssetTypes == {1, 2}
get_identifier(t) == Bytes32(t)
from_identifier(b) ==
    IF b[1] \in AssetTypes /\ \A k \in 2..32 : b[k] = 0 THEN Some(b[1]) ELSE None
\* i64::to_le_bytes and i64::from_le_bytes.  A value the eight bytes hold
\* beyond the width of the model is out of range on its side.
i64_to_le_bytes(v) ==
    LET u == (v + 16777216) % 16777216
    IN  [k \in 1..8 |-> IF k <= 3 THEN (u \div (256 ^ (k - 1))) % 256
                        ELSE IF v < 0 THEN 255 ELSE 0]
i64_from_le_bytes(b) ==
    LET low == b[1] + 256 * b[2] + 65536 * b[3]
    IN  IF \A k \in 4..8 : b[k] = 0
        THEN IF low <= I64_MAX THEN low ELSE I64_MAX
        ELSE IF \A k \in 4..8 : b[k] = 255
        THEN IF low - 16777216 >= I64_MIN THEN low - 16777216 ELSE I64_MIN
        ELSE IF b[8] >= 128 THEN I64_MIN ELSE I64_MAX

\* the elements of Vector::write, one after the other
RECURSIVE WriteElems(_, _)
WriteElems(vec, k) ==
    IF k > Len(vec) THEN << >>
    ELSE get_identifier(vec[k][1]) \o i64_to_le_bytes(vec[k][2]) \o WriteElems(vec, k + 1)
\* Vector::write: the number of elements, then the elements
Vector_write(vec) == <<Len(vec)>> \o WriteElems(vec, 1)
Amount_write(self) == Vector_write(Amount_components(self))

\* the n elements Vector::read takes from position pos on
RECURSIVE ReadElems(_, _, _)
ReadElems(b, pos, n) ==
    IF n = 0 THEN Ok(<< >>)
    ELSE IF Len(b) < pos + 39 THEN Err("UnexpectedEof")
    ELSE LET atype == from_identifier(SubSeq(b, pos, pos + 31))
             value == i64_from_le_bytes(SubSeq(b, pos + 32, pos + 39))
             rest == ReadElems(b, pos + 40, n - 1)
         IN  IF ~atype.some THEN Err("InvalidData")
             ELSE IF ~rest.ok THEN rest
             ELSE Ok(<< <<atype.val, value>> >> \o rest.val)
\* the loop of read over the decoded pairs
RECURSIVE ReadLoop(_, _, _)
ReadLoop(ret, vec, k) ==
    IF k > Len(vec) THEN Val(Ok(ret))
    ELSE LET r == Amount_from(vec[k][1], vec[k][2])
             sum == Amount_add_assign(ret, r.val)
         IN  IF ~r.ok THEN Val(Err("InvalidData"))
             ELSE IF sum = Panic THEN Panic
             ELSE ReadLoop(sum.val, vec, k + 1)
\* Vector::read: the number of elements, then that many elements
Vector_read(b) ==
    IF Len(b) < 1 THEN Err("UnexpectedEof") ELSE ReadElems(b, 2, b[1])
Amount_read(b) ==
    LET vec == Vector_read(b)
    IN  IF ~vec.ok THEN Val(vec) ELSE ReadLoop(Amount_zero, vec.val, 1)

(***************************************************************************)
(* zip32.rs: FromStr for ExtendedSpendingKey.  A string is the sequence of *)
(* its characters.                                                         *)
(***************************************************************************)
LowerHexDigits ==
    <<"0", "1", "2", "3", "4", "5", "6", "7", "8", "9", "a", "b", "c", "d", "e", "f">>
UpperHexDigits ==
    <<"0", "1", "2", "3", "4", "5", "6", "7", "8", "9", "A", "B", "C", "D", "E", "F">>
\* the value of a hexadecimal digit of either case, or None
hex_val(c) ==
    IF \E v \in 1..16 : LowerHexDigits[v] = c \/ UpperHexDigits[v] = c
    THEN Some((CHOOSE v \in 1..16 : LowerHexDigits[v] = c \/ UpperHexDigits[v] = c) - 1)
    ELSE None
RECURSIVE hex_decode_from(_, _)
hex_decode_from(s, k) ==
    IF k > Len(s) THEN Ok(<< >>)
    ELSE LET hi == hex_val(s[k])
             lo == hex_val(s[k + 1])
             rest == hex_decode_from(s, k + 2)
         IN  IF ~hi.some \/ ~lo.some THEN Err("InvalidHexCharacter")
             ELSE IF ~rest.ok THEN rest
             ELSE Ok(<<16 * hi.val + lo.val>> \o rest.val)
\* hex::decode
hex_decode(s) ==
    IF Len(s) % 2 = 1 THEN Err("OddLength") ELSE hex_decode_from(s, 1)

\* a faulty import: text that does not decode is taken as the empty seed
ExtendedSpendingKey_from_str_Lenient(s) ==
    LET vec == hex_decode(s)
    IN  Ok(ExtendedSpendingKey_master(IF vec.ok THEN vec.val ELSE << >>))

ExtendedSpendingKey_from_str(s) ==
    LET vec == hex_decode(s)
    IN  IF ~vec.ok THEN Err("InvalidData")
        ELSE Ok(ExtendedSpendingKey_master(vec.val))

(***************************************************************************)
(* The inputs explored.                                                    *)
(***************************************************************************)
Seeds == { [k \in 1..32 |-> 0], <<1, 2, 3>> }
ChildIndices ==
    { NonHardened(U32(0, 5)), Hardened(U32(0, 5)),
      Hardened(U32(1, 0)), NonHardened(U32(1, 0)) }
SeedTexts ==
    { << >>, <<"0", "1", "0", "2", "0", "3">>, <<"0", "A", "f", "F">>,
      <<"0", "1", "0">>, <<"0", "g">>, <<"x", "1", "0", "2">> }
\* integers handed to from and from_nonnegative, some beyond i64
AmountValues ==
    { I64_MIN, -MAX_MONEY - 1, -MAX_MONEY, -1, 0, 1, MAX_MONEY, MAX_MONEY + 1,
      I64_MAX + 1 }
\* right-hand sides: single components, two assets, and a product by 0
Operands ==
    { Amount_zero, Amount_from(1, 1).val, Amount_from(1, -MAX_MONEY).val,
      Amount_from(2, -1).val, Amount_from(2, MAX_MONEY).val,
      Amount_add(Amount_from(1, 1).val, Amount_from(2, -1).val).val,
      Amount_mul(Amount_from(1, 1).val, 0).val }
Multipliers == { 0, 1, -1, 2, I64_MAX }
\* lists of (asset identifier, value) given to read in encoded form; the
\* asset 0 has no valid identifier
ReadLists ==
    { << >>, << <<1, 0>> >>, << <<1, -1>> >>, << <<1, MAX_MONEY>> >>,
      << <<1, MAX_MONEY + 1>> >>, << <<2, -MAX_MONEY>> >>, << <<2, -MAX_MONEY - 1>> >>,
      << <<1, 1>>, <<2, -1>> >>, << <<1, 1>>, <<1, -1>> >>, << <<0, 1>> >>,
      << <<1, MAX_MONEY>>, <<1, 1>> >>, << <<1, 1>>, <<2, MAX_MONEY + 1>> >>,
      << <<1, MAX_MONEY>>, <<1, 1>>, <<1, MAX_MONEY + 1>> >> }
\* a list and the number of bytes missing at the end of its encoding
ReadInputs ==
    { <<l, 0>> : l \in ReadLists } \cup { <<l, 1>> : l \in { << >>, << <<1, 1>> >> } }
RECURSIVE EncodePairs(_, _)
EncodePairs(l, k) ==
    IF k > Len(l) THEN << >>
    ELSE Bytes32(l[k][1]) \o i64_to_le_bytes(l[k][2]) \o EncodePairs(l, k + 1)
EncodeList(l) == <<Len(l)>> \o EncodePairs(l, 1)
LongPath == [k \in 1..254 |-> NonHardened(U32(0, 0))]
Paths ==
    { <<>>, <<Hardened(U32(0, 5))>>,
      <<Hardened(U32(0, 5)), NonHardened(U32(0, 7))>>, LongPath }
\* the diversifier index of a number, and the number of a diversifier index
RECURSIVE IndexValueFrom(_, _)
IndexValueFrom(j, k) ==
    IF k > Len(j) THEN 0 ELSE j[k] + 256 * IndexValueFrom(j, k + 1)
IndexValue(j) == IndexValueFrom(j, 1)
IndexOf(v) == [k \in 1..NBytes |-> (v \div (256 ^ (k - 1))) % 256]
IndexCount == 256 ^ NBytes
MaxIndex == [k \in 1..NBytes |-> 255]
AddressIndices == { DiversifierIndex_new, IndexOf(1), MaxIndex }
AddressChildIndices == { NonHardened(U32(0, 5)), Hardened(U32(0, 5)) }
SearchIndices ==
    { IndexOf(v) : v \in (0..3) \cup (1278..1281) \cup ((IndexCount - 4)..(IndexCount - 1)) }
DiversifierKeys == 0..(DigestMod - 1)
\* inputs of read: an encoding as written, cut short, or with one field
\* overwritten
Malformations == {"intact", "short", "empty", "depth", "tag", "index", "key"}
Malformed(b, t) ==
    CASE t = "intact" -> b
      [] t = "short" -> SubSeq(b, 1, Len(b) - 1)
      [] t = "empty" -> << >>
      [] t = "depth" -> [b EXCEPT ![1] = 0]
      [] t = "tag" -> [b EXCEPT ![2] = 255 - b[2]]
      [] t = "index" -> [b EXCEPT ![6] = 255 - b[6]]
      [] t = "key" -> [b EXCEPT ![42] = 255]

(***************************************************************************)
(* The key tree: a caller holding a spending key and its viewing key.      *)
(***************************************************************************)
InitKeys ==
    /\ status = "running"
    /\ \E seed \in Seeds :
          /\ m = ExtendedSpendingKey_master(seed)
          /\ last = [op |-> "master", seed |-> seed]
    /\ xsk = m
    /\ xfvk = ExtendedFullViewingKey_from(m)
    /\ path = <<>>
    /\ pure = TRUE
    /\ steps = 0
    /\ pc = "idle"
    /\ f_dk = 0
    /\ f_start = DiversifierIndex_new
    /\ f_j = DiversifierIndex_new
    /\ f_ret = None
    /\ amt = Amount_zero

Init ==
    /\ overflow_checks \in BOOLEAN
    /\ InitKeys

Master(seed) ==
    /\ status = "running"
    /\ m' = ExtendedSpendingKey_master(seed)
    /\ xsk' = m'
    /\ xfvk' = ExtendedFullViewingKey_from(m')
    /\ path' = <<>>
    /\ pure' = TRUE
    /\ steps' = 0
    /\ last' = [op |-> "master", seed |-> seed]
    /\ UNCHANGED <<overflow_checks, amt, status, findVars>>

\* s.parse::<ExtendedSpendingKey>()
FromStr(s) ==
    /\ status = "running"
    /\ LET r == ExtendedSpendingKey_from_str(s)
       IN  /\ last' = [op |-> "from_str", s |-> s, res |-> r]
           /\ IF r.ok
              THEN /\ m' = r.val
                   /\ xsk' = r.val
                   /\ xfvk' = ExtendedFullViewingKey_from(r.val)
                   /\ path' = << >>
                   /\ pure' = TRUE
                   /\ steps' = 0
              ELSE UNCHANGED keyVars
    /\ UNCHANGED <<overflow_checks, amt, status, findVars>>

\* xsk.derive_child(i) and, on the viewing side, xfvk.derive_child(i); a
\* viewing key has no hardened child, so there the child is projected
DeriveChild(i) ==
    /\ status = "running"
    /\ steps < MaxSteps
    /\ LET c == ExtendedSpendingKey_derive_child(xsk, i)
           v == ExtendedFullViewingKey_derive_child(xfvk, i)
       IN  /\ last' = [op |-> "derive_child", i |-> i, parent_depth |-> xsk.depth,
                       xsk |-> xsk, xfvk |-> xfvk, xres |-> c, vres |-> v]
           /\ IF c = Panic \/ v = Panic
              THEN /\ status' = "panicked"
                   /\ UNCHANGED keyVars
              ELSE /\ xsk' = c
                   /\ xfvk' = IF v.ok THEN v.val ELSE ExtendedFullViewingKey_from(c)
                   /\ path' = Append(path, i)
                   /\ steps' = steps + 1
                   /\ UNCHANGED <<status, m, pure>>
    /\ UNCHANGED <<overflow_checks, amt, findVars>>

FromPath(p) ==
    /\ status = "running"
    /\ steps = 0
    /\ xsk = m
    /\ LET r == ExtendedSpendingKey_from_path(m, p)
       IN  /\ last' = [op |-> "from_path", path |-> p, res |-> r]
           /\ IF r = Panic
              THEN /\ status' = "panicked"
                   /\ UNCHANGED keyVars
              ELSE /\ xsk' = r
                   /\ xfvk' = ExtendedFullViewingKey_from(r)
                   /\ path' = p
                   /\ UNCHANGED <<status, m, pure, steps>>
    /\ UNCHANGED <<overflow_checks, amt, findVars>>

DeriveInternal ==
    /\ status = "running"
    /\ steps < MaxSteps
    /\ xsk' = ExtendedSpendingKey_derive_internal(xsk)
    /\ xfvk' = ExtendedFullViewingKey_derive_internal(xfvk)
    /\ pure' = FALSE
    /\ steps' = steps + 1
    /\ last' = [op |-> "derive_internal", xsk |-> xsk, xfvk |-> xfvk]
    /\ UNCHANGED <<overflow_checks, amt, status, m, path, findVars>>

\* write each key and read it back
ReadWrite ==
    /\ status = "running"
    /\ LET ser == ExtendedSpendingKey_write(xsk)
           vser == ExtendedFullViewingKey_write(xfvk)
       IN  IF ser = Panic \/ vser = Panic
           THEN /\ status' = "panicked"
                /\ last' = [op |-> "read_write", xres |-> Panic, vres |-> Panic]
           ELSE /\ status' = status
                /\ last' = [op |-> "read_write",
                            xres |-> ExtendedSpendingKey_read(ser.val),
                            vres |-> ExtendedFullViewingKey_read(vser.val)]
    /\ UNCHANGED <<overflow_checks, amt, keyVars, findVars>>

\* read applied to input bytes: an encoding of the keys held, possibly
\* malformed
Read(t) ==
    /\ status = "running"
    /\ LET ser == ExtendedSpendingKey_write(xsk)
           vser == ExtendedFullViewingKey_write(xfvk)
       IN  /\ ser # Panic
           /\ vser # Panic
           /\ last' = [op |-> "read", t |-> t,
                       xin |-> Malformed(ser.val, t),
                       vin |-> Malformed(vser.val, t),
                       xres |-> ExtendedSpendingKey_read(Malformed(ser.val, t)),
                       vres |-> ExtendedFullViewingKey_read(Malformed(vser.val, t))]
    /\ UNCHANGED <<overflow_checks, amt, status, keyVars, findVars>>

\* write of each key
Write ==
    /\ status = "running"
    /\ LET ser == ExtendedSpendingKey_write(xsk)
           vser == ExtendedFullViewingKey_write(xfvk)
       IN  /\ last' = [op |-> "write", xser |-> ser, vser |-> vser]
           /\ status' = IF ser = Panic \/ vser = Panic THEN "panicked" ELSE status
    /\ UNCHANGED <<overflow_checks, amt, keyVars, findVars>>

\* c.value() and ChildIndex::from_index of it
IndexRoundTrip(c) ==
    /\ status = "running"
    /\ LET v == ChildIndex_value(c)
       IN  IF v = Panic
           THEN /\ status' = "panicked"
                /\ last' = [op |-> "child_index", c |-> c, value |-> Panic]
           ELSE /\ status' = status
                /\ last' = [op |-> "child_index", c |-> c, value |-> Val(v),
                            back |-> ChildIndex_from_index(v)]
    /\ UNCHANGED <<overflow_checks, amt, keyVars, findVars>>

Address(j) ==
    /\ status = "running"
    /\ last' = [op |-> "address", j |-> j,
                res |-> ExtendedFullViewingKey_address(xfvk, j)]
    /\ UNCHANGED <<overflow_checks, amt, status, keyVars, findVars>>

FindAddress(j) ==
    /\ status = "running"
    /\ last' = [op |-> "find_address", j |-> j,
                res |-> ExtendedFullViewingKey_find_address(xfvk, j)]
    /\ UNCHANGED <<overflow_checks, amt, status, keyVars, findVars>>

XfvkDefaultAddress ==
    /\ status = "running"
    /\ LET r == ExtendedFullViewingKey_default_address(xfvk)
       IN  /\ last' = [op |-> "xfvk_default_address", res |-> r]
           /\ status' = IF r = Panic THEN "panicked" ELSE status
    /\ UNCHANGED <<overflow_checks, amt, keyVars, findVars>>

XskDefaultAddress ==
    /\ status = "running"
    /\ LET r == ExtendedSpendingKey_default_address(xsk)
       IN  /\ last' = [op |-> "xsk_default_address", res |-> r]
           /\ status' = IF r = Panic THEN "panicked" ELSE status
    /\ UNCHANGED <<overflow_checks, amt, keyVars, findVars>>

Next ==
    \/ \E seed \in Seeds : Master(seed)
    \/ \E i \in ChildIndices : DeriveChild(i)
    \/ \E p \in Paths : FromPath(p)
    \/ DeriveInternal
    \/ ReadWrite

Spec == Init /\ [][Next]_vars

(***************************************************************************)
(* The encodings of the keys of the tree and of their child indices.       *)
(***************************************************************************)
NextIo ==
    \/ \E seed \in Seeds : Master(seed)
    \/ \E i \in ChildIndices : DeriveChild(i)
    \/ DeriveInternal
    \/ \E t \in Malformations : Read(t)
    \/ \E c \in ChildIndices : IndexRoundTrip(c)
    \/ Write
    \/ \E s \in SeedTexts : FromStr(s)

SpecIo == Init /\ [][NextIo]_vars

(***************************************************************************)
(* Addresses of the keys of the tree.                                      *)
(***************************************************************************)
NextAddr ==
    \/ \E i \in AddressChildIndices : DeriveChild(i)
    \/ DeriveInternal
    \/ \E j \in AddressIndices : Address(j)
    \/ \E j \in AddressIndices : FindAddress(j)
    \/ XfvkDefaultAddress
    \/ XskDefaultAddress

SpecAddr == Init /\ [][NextAddr]_vars

(***************************************************************************)
(* The diversifier key: its operations, and find_diversifier one loop      *)
(* iteration at a time.                                                     *)
(***************************************************************************)
Diversifier(dk, j) ==
    /\ pc = "idle"
    /\ last' = [op |-> "diversifier", dk |-> dk, j |-> j,
                res |-> DiversifierKey_diversifier(dk, j)]
    /\ UNCHANGED <<overflow_checks, amt, status, keyVars, findVars>>

\* diversifier_index of the diversifier the last call returned
DiversifierIndexOf(dk) ==
    /\ pc = "idle"
    /\ last.op \in {"diversifier", "find_diversifier"}
    /\ last.res.some
    /\ LET d == IF last.op = "diversifier" THEN last.res.val ELSE last.res.val[2]
       IN  last' = [op |-> "diversifier_index", dk |-> dk, d |-> d,
                    res |-> DiversifierKey_diversifier_index(dk, d)]
    /\ UNCHANGED <<overflow_checks, amt, status, keyVars, findVars>>

\* j.increment(): the index afterwards and whether it returned Ok(())
Increment(j) ==
    /\ pc = "idle"
    /\ last' = [op |-> "increment", j |-> j, res |-> DiversifierIndex_increment(j)]
    /\ UNCHANGED <<overflow_checks, amt, status, keyVars, findVars>>

FindCall(dk, j) ==
    /\ pc = "idle"
    /\ pc' = "loop"
    /\ f_dk' = dk
    /\ f_start' = j
    /\ f_j' = j
    /\ f_ret' = None
    /\ last' = [op |-> "call_find_diversifier", dk |-> dk, j |-> j]
    /\ UNCHANGED <<overflow_checks, amt, status, keyVars>>

FindStep ==
    /\ pc = "loop"
    /\ LET it == FindIteration(FF1_new(f_dk), f_j)
       IN  /\ f_j' = it.j
           /\ f_ret' = it.ret
           /\ pc' = IF it.done THEN "done" ELSE "loop"
    /\ UNCHANGED <<overflow_checks, amt, status, keyVars, last, f_dk, f_start>>

FindReturn ==
    /\ pc = "done"
    /\ pc' = "idle"
    /\ last' = [op |-> "find_diversifier", dk |-> f_dk, j |-> f_start, res |-> f_ret]
    /\ f_dk' = 0
    /\ f_start' = DiversifierIndex_new
    /\ f_j' = DiversifierIndex_new
    /\ f_ret' = None
    /\ UNCHANGED <<overflow_checks, amt, status, keyVars>>

NextDiv ==
    \/ \E dk \in DiversifierKeys, j \in SearchIndices : Diversifier(dk, j)
    \/ \E dk \in DiversifierKeys : DiversifierIndexOf(dk)
    \/ \E j \in SearchIndices : Increment(j)
    \/ \E dk \in DiversifierKeys, j \in SearchIndices : FindCall(dk, j)
    \/ FindStep
    \/ FindReturn

InitDiv ==
    /\ overflow_checks = FALSE
    /\ InitKeys

\* dk.find_diversifier(j), the whole call
FindDiversifier(dk, j) ==
    /\ pc = "idle"
    /\ last' = [op |-> "find_diversifier", dk |-> dk, j |-> j,
                res |-> DiversifierKey_find_diversifier(dk, j)]
    /\ UNCHANGED <<overflow_checks, amt, status, keyVars, findVars>>

\* find_diversifier has no suspension point: a started loop keeps running.
\* This is WF_vars(FindStep) written out: an iteration changes pc or f_j, so
\* ENABLED <<FindStep>>_vars is pc = "loop".
FindFairness == []<>(pc # "loop") \/ []<><<FindStep>>_vars
SpecDiv == InitDiv /\ [][NextDiv]_vars /\ FindFairness

(***************************************************************************)
(* Every operation on the keys of the tree, each call recorded with its    *)
(* arguments and its result.                                               *)
(***************************************************************************)
NextDet ==
    \/ \E seed \in Seeds : Master(seed)
    \/ \E i \in ChildIndices : DeriveChild(i)
    \/ DeriveInternal
    \/ Write
    \/ \E j \in AddressIndices : Address(j)
    \/ \E j \in AddressIndices : Diversifier(xfvk.dk, j)
    \/ \E j \in AddressIndices : FindDiversifier(xfvk.dk, j)

SpecDet == Init /\ [][NextDet]_vars

(***************************************************************************)
(* Amounts: the caller holds one Amount and applies the operations of      *)
(* amount.rs to it.                                                        *)
(***************************************************************************)
AmountFrom(t, v) ==
    LET r == Amount_from(t, v)
    IN  /\ status = "running"
        /\ last' = [op |-> "from", t |-> t, v |-> v, res |-> r]
        /\ amt' = IF r.ok THEN r.val ELSE amt
        /\ UNCHANGED <<overflow_checks, status, keyVars, findVars>>
AmountFromNonnegative(t, v) ==
    LET r == Amount_from_nonnegative(t, v)
    IN  /\ status = "running"
        /\ last' = [op |-> "from_nonnegative", t |-> t, v |-> v, res |-> r]
        /\ amt' = IF r.ok THEN r.val ELSE amt
        /\ UNCHANGED <<overflow_checks, status, keyVars, findVars>>
AmountAdd(b) ==
    LET r == Amount_add(amt, b)
    IN  /\ status = "running"
        /\ last' = [op |-> "add", sign |-> 1, a |-> amt, b |-> b, res |-> r]
        /\ status' = IF r = Panic THEN "panicked" ELSE status
        /\ amt' = IF r = Panic THEN amt ELSE r.val
        /\ UNCHANGED <<overflow_checks, keyVars, findVars>>
AmountAddAssign(b) ==
    LET r == Amount_add_assign(amt, b)
    IN  /\ status = "running"
        /\ last' = [op |-> "add_assign", sign |-> 1, a |-> amt, b |-> b, res |-> r]
        /\ status' = IF r = Panic THEN "panicked" ELSE status
        /\ amt' = IF r = Panic THEN amt ELSE r.val
        /\ UNCHANGED <<overflow_checks, keyVars, findVars>>
AmountSub(b) ==
    LET r == Amount_sub(amt, b)
    IN  /\ status = "running"
        /\ last' = [op |-> "sub", sign |-> -1, a |-> amt, b |-> b, res |-> r]
        /\ status' = IF r = Panic THEN "panicked" ELSE status
        /\ amt' = IF r = Panic THEN amt ELSE r.val
        /\ UNCHANGED <<overflow_checks, keyVars, findVars>>
AmountSubAssign(b) ==
    LET r == Amount_sub_assign(amt, b)
    IN  /\ status = "running"
        /\ last' = [op |-> "sub_assign", sign |-> -1, a |-> amt, b |-> b, res |-> r]
        /\ status' = IF r = Panic THEN "panicked" ELSE status
        /\ amt' = IF r = Panic THEN amt ELSE r.val
        /\ UNCHANGED <<overflow_checks, keyVars, findVars>>
AmountMul(rhs) ==
    LET r == Amount_mul(amt, rhs)
    IN  /\ status = "running"
        /\ last' = [op |-> "mul", a |-> amt, rhs |-> rhs, res |-> r]
        /\ status' = IF r = Panic THEN "panicked" ELSE status
        /\ amt' = IF r = Panic THEN amt ELSE r.val
        /\ UNCHANGED <<overflow_checks, keyVars, findVars>>
\* vec![amt, b, b].into_iter().sum()
AmountSum(b) ==
    LET r == Amount_sum(<<amt, b, b>>)
    IN  /\ status = "running"
        /\ last' = [op |-> "sum", a |-> amt, b |-> b, res |-> r]
        /\ status' = IF r = Panic THEN "panicked" ELSE status
        /\ amt' = IF r = Panic THEN amt ELSE r.val
        /\ UNCHANGED <<overflow_checks, keyVars, findVars>>
AmountProject(t) ==
    LET r == Amount_project(amt, t)
    IN  /\ status = "running"
        /\ last' = [op |-> "project", a |-> amt, t |-> t, res |-> r]
        /\ status' = IF r = Panic THEN "panicked" ELSE status
        /\ amt' = IF r = Panic THEN amt ELSE r.val
        /\ UNCHANGED <<overflow_checks, keyVars, findVars>>
\* amt.reject(t), and amt.project(t) + amt.reject(t)
AmountReject(t) ==
    LET p == Amount_project(amt, t)
        r == Amount_reject(amt, t)
        sum == IF p = Panic \/ r = Panic THEN Panic ELSE Amount_add(p.val, r.val)
    IN  /\ status = "running"
        /\ last' = [op |-> "reject", a |-> amt, t |-> t, res |-> r, sum |-> sum]
        /\ status' = IF r = Panic THEN "panicked" ELSE status
        /\ amt' = IF r = Panic THEN amt ELSE r.val
        /\ UNCHANGED <<overflow_checks, keyVars, findVars>>
\* Amount::read of the encoding of l, cut bytes short
AmountRead(l, cut) ==
    LET b == SubSeq(EncodeList(l), 1, Len(EncodeList(l)) - cut)
        r == Amount_read(b)
    IN  /\ status = "running"
        /\ last' = [op |-> "read", pairs |-> l, cut |-> cut, bytes |-> b, res |-> r]
        /\ status' = IF r = Panic THEN "panicked" ELSE status
        /\ amt' = IF r # Panic /\ r.val.ok THEN r.val.val ELSE amt
        /\ UNCHANGED <<overflow_checks, keyVars, findVars>>
\* amt.write(..) and Amount::read of what was written
AmountWriteRead ==
    LET b == Amount_write(amt)
        r == Amount_read(b)
    IN  /\ status = "running"
        /\ last' = [op |-> "write_read", a |-> amt, bytes |-> b, res |-> r]
        /\ status' = IF r = Panic THEN "panicked" ELSE status
        /\ UNCHANGED <<overflow_checks, amt, keyVars, findVars>>
AmountPartialCmp(b) ==
    LET r == Amount_partial_cmp(amt, b)
    IN  /\ status = "running"
        /\ last' = [op |-> "partial_cmp", a |-> amt, b |-> b, res |-> r]
        /\ status' = IF r = Panic THEN "panicked" ELSE status
        /\ UNCHANGED <<overflow_checks, amt, keyVars, findVars>>

NextAmt ==
    \/ \E t \in AssetTypes, v \in AmountValues : AmountFrom(t, v)
    \/ \E t \in AssetTypes, v \in AmountValues : AmountFromNonnegative(t, v)
    \/ \E b \in Operands : AmountAdd(b)
    \/ \E b \in Operands : AmountAddAssign(b)
    \/ \E b \in Operands : AmountSub(b)
    \/ \E b \in Operands : AmountSubAssign(b)
    \/ \E rhs \in Multipliers : AmountMul(rhs)
    \/ \E b \in Operands : AmountSum(b)
    \/ \E t \in AssetTypes : AmountProject(t)
    \/ \E t \in AssetTypes : AmountReject(t)
    \/ \E i \in ReadInputs : AmountRead(i[1], i[2])
    \/ AmountWriteRead
    \/ \E b \in Operands : AmountPartialCmp(b)

SpecAmt == Init /\ [][NextAmt]_vars

(***************************************************************************)
(* Properties of the key tree (Spec).                                      *)
(***************************************************************************)

\* C1: cross-path agreement.  For every spending key reached from master by
\* derive_child steps and every non-hardened index i, projecting the child
\* of the spending key gives the same viewing key, field by field, as
\* deriving the child of the projected viewing key (both abort together
\* when the depth overflows); and the viewing key the caller derived on its
\* own by a non-hardened step is the projection of the spending key.
C1_CrossPathAgreement ==
    status = "running" =>
        /\ \A i \in ChildIndices :
              ~i.hardened =>
                  LET c == ExtendedSpendingKey_derive_child(xsk, i)
                      v == ExtendedFullViewingKey_derive_child(
                               ExtendedFullViewingKey_from(xsk), i)
                  IN  IF c = Panic THEN v = Panic
                      ELSE v = Ok(ExtendedFullViewingKey_from(c))
        /\ (last.op = "derive_child" /\ ~last.i.hardened) =>
              /\ last.vres = Ok(xfvk)
              /\ xfvk = ExtendedFullViewingKey_from(xsk)

\* a non-hardened child of a hardened child, derived on both sides
C1_Witness ==
    /\ status = "running"
    /\ last.op = "derive_child"
    /\ ~last.i.hardened
    /\ Len(path) = 2
    /\ path[1].hardened
    /\ last.vres = Ok(xfvk)
    /\ xfvk = ExtendedFullViewingKey_from(xsk)

\* C2: for every extended full viewing key, derive_child(Hardened(i)) is an
\* error and derive_child(NonHardened(i)) returns Ok, for every i.
C2_HardenedExclusivity ==
    \A i \in ChildIndices :
        LET v == ExtendedFullViewingKey_derive_child(xfvk, i)
        IN  IF i.hardened THEN v = Err("()")
            ELSE v # Panic /\ v.ok

\* C3: ExtendedSpendingKey::derive_child(Hardened(i)) returns a child key and
\* never aborts, for every spending key and every 32-bit i.
C3_HardenedAlwaysSucceeds ==
    (last.op = "derive_child" /\ last.i.hardened) =>
        /\ status = "running"
        /\ last.xres # Panic
        /\ xsk = last.xres

\* C4: path equivalence.  The key reached from the master key m by one
\* derive_child per index of path is from_path(m, path); when the last step
\* aborts, so does from_path on the path with that index; from_path with
\* the empty path is m.
C4_PathEquivalence ==
    /\ (status = "running" /\ pure) =>
          xsk = ExtendedSpendingKey_from_path(m, path)
    /\ (status = "panicked" /\ pure /\ last.op = "derive_child") =>
          ExtendedSpendingKey_from_path(m, Append(path, last.i)) = Panic
    /\ ExtendedSpendingKey_from_path(m, <<>>) = m

\* two derive_child steps from the master key
C4_Witness ==
    /\ status = "running"
    /\ pure
    /\ last.op = "derive_child"
    /\ steps = 2
    /\ Len(path) = 2
    /\ path[1] # path[2]
    /\ xsk = ExtendedSpendingKey_from_path(m, path)

\* C5: serialization round trip.  For every extended spending key and every
\* extended full viewing key that is a master key or derived from one,
\* read(write(k)) succeeds and returns a key equal to k.
C5_ReadWriteRoundTrip ==
    last.op = "read_write" =>
        /\ status = "running"
        /\ last.xres = Ok(xsk)
        /\ last.vres = Ok(xfvk)

\* C10: the depth of a derived key is the parent's depth plus 1, for every
\* derive_child on a spending key and on a viewing key and every parent
\* depth 0..255; the derivation does not abort.  (Stated for the indices
\* below 2^31, whose encoding cannot overflow.)
C10_DepthPlusOne ==
    (last.op = "derive_child" /\ last.i.i.hi = 0) =>
        /\ last.xres # Panic
        /\ last.xres.depth = last.parent_depth + 1
        /\ ~last.i.hardened =>
              /\ last.vres # Panic
              /\ last.vres.val.depth = last.parent_depth + 1

(***************************************************************************)
(* Properties of the diversifier key (SpecDiv).                            *)
(***************************************************************************)
\* no index with a value in lo..hi has a diversifier under dk
NoneValidIn(dk, lo, hi) ==
    \A v \in lo..hi : ~DiversifierKey_diversifier(dk, IndexOf(v)).some

\* C6: search monotonicity.  When find_diversifier(j) returns Some((k, d)),
\* k >= j as little-endian integers, d is diversifier(k), no index in
\* [j, k) has a diversifier, and k = j exactly when diversifier(j) is Some;
\* while the loop runs its index is at or above j with nothing valid below.
C6_SearchMonotonicity ==
    /\ pc = "loop" =>
          /\ IndexValue(f_j) >= IndexValue(f_start)
          /\ NoneValidIn(f_dk, IndexValue(f_start), IndexValue(f_j) - 1)
    /\ (last.op = "find_diversifier" /\ last.res.some) =>
          LET k == last.res.val[1]
              d == last.res.val[2]
          IN  /\ IndexValue(k) >= IndexValue(last.j)
              /\ DiversifierKey_diversifier(last.dk, k) = Some(d)
              /\ NoneValidIn(last.dk, IndexValue(last.j), IndexValue(k) - 1)
              /\ (k = last.j) <=> DiversifierKey_diversifier(last.dk, last.j).some
    /\ (last.op = "find_diversifier"
          /\ DiversifierKey_diversifier(last.dk, last.j).some) =>
          /\ last.res.some
          /\ last.res.val[1] = last.j

\* a search that skipped at least two indices, across a byte carry
C6_Witness ==
    /\ last.op = "find_diversifier"
    /\ last.res.some
    /\ IndexValue(last.res.val[1]) >= IndexValue(last.j) + 2
    /\ last.j[1] > last.res.val[1][1]

\* C7: find_diversifier terminates, and returns None exactly when no index
\* from j to the all-0xFF index has a diversifier; started at the all-0xFF
\* index it returns Some at that index or None.
C7_FindTerminates ==
    /\ (pc = "loop") ~> (pc = "done")
    /\ [](last.op = "find_diversifier" =>
            /\ last.res = None =>
                  NoneValidIn(last.dk, IndexValue(last.j), IndexCount - 1)
            /\ last.res # None =>
                  /\ IndexValue(last.res.val[1]) \in IndexValue(last.j)..(IndexCount - 1)
                  /\ DiversifierKey_diversifier(last.dk, last.res.val[1]).some
            /\ last.j = MaxIndex =>
                  \/ last.res = None
                  \/ last.res.val[1] = MaxIndex)

\* a search that ran off the all-0xFF index after more than one iteration
C7_Witness ==
    /\ last.op = "find_diversifier"
    /\ last.res = None
    /\ last.j # MaxIndex

\* C9: diversifier inverse.  When diversifier(j) is Some(d),
\* diversifier_index(d) is j; and for a valid diversifier d, under any key,
\* diversifier(diversifier_index(d)) is Some(d).
C9_DiversifierInverse ==
    /\ (last.op = "diversifier" /\ last.res.some) =>
          DiversifierKey_diversifier_index(last.dk, last.res.val) = last.j
    /\ (last.op = "diversifier_index" /\ g_d(last.d).some) =>
          DiversifierKey_diversifier(last.dk, last.res) = Some(last.d)

\* the index of a diversifier, taken under another key than the one that
\* produced it
C9_Witness ==
    /\ last.op = "diversifier_index"
    /\ g_d(last.d).some
    /\ \E dk \in DiversifierKeys, j \in SearchIndices :
          /\ dk # last.dk
          /\ DiversifierKey_diversifier(dk, j) = Some(last.d)
          /\ last.res # j
    /\ DiversifierKey_diversifier(last.dk, last.res) = Some(last.d)

(***************************************************************************)
(* Properties of the addresses (SpecAddr).                                 *)
(***************************************************************************)
\* C8: a search that finds no usable diversifier is an explicit outcome of
\* find_address and of default_address on both key types, and never ends
\* the process.
C8_ExhaustionReported ==
    last.op \in {"find_address", "xfvk_default_address", "xsk_default_address"} =>
        /\ status = "running"
        /\ last.res # Panic

(***************************************************************************)
(* Properties of the encodings (SpecIo).                                   *)
(***************************************************************************)
\* a key of depth 0 carries the sentinel tag and the child index 0
DepthZeroIsMaster(k) ==
    k.depth = 0 =>
        /\ k.parent_fvk_tag = FvkTag_master
        /\ k.child_index = NonHardened(U32(0, 0))

\* C11: every extended key obtained by master, derive_child, derive_internal,
\* projection or a successful read that has depth 0 has the all-zero parent
\* tag and the child index NonHardened(0); master(seed) has depth 0.
C11_DepthZeroInvariant ==
    /\ DepthZeroIsMaster(xsk)
    /\ DepthZeroIsMaster(xfvk)
    /\ m.depth = 0
    /\ DepthZeroIsMaster(m)
    /\ last.op = "read" =>
          /\ last.xres.ok => DepthZeroIsMaster(last.xres.val)
          /\ last.vres.ok => DepthZeroIsMaster(last.vres.val)

\* C12: for every child index c, Hardened(n) or NonHardened(n) with any
\* 32-bit n, c.value() is n for NonHardened and n + 2^31 for Hardened (as
\* integers: top bit and low 31 bits), and from_index(c.value()) is c.
C12_ChildIndexRoundTrip ==
    last.op = "child_index" =>
        /\ last.value # Panic
        /\ last.value.val.lo = last.c.i.lo
        /\ last.value.val.hi = (IF last.c.hardened THEN last.c.i.hi + 1 ELSE last.c.i.hi)
        /\ last.back = last.c

\* an encoding that is too short, or whose depth is 0 while its parent tag
\* or its child index is not zero
IsMalformed(b) ==
    \/ Len(b) < 169
    \/ /\ b[1] = 0
       /\ \E k \in 2..9 : b[k] # 0

\* C14: read of a malformed encoding (shorter than 169 bytes, or with
\* inconsistent depth, parent tag and child index) fails with InvalidData and
\* returns no key, for spending keys and for viewing keys.
C14_ReadRejectsMalformed ==
    last.op = "read" =>
        /\ IsMalformed(last.xin) => last.xres = Err("InvalidData")
        /\ IsMalformed(last.vin) => last.vres = Err("InvalidData")

\* the 73 bytes of an encoding around the key bytes are those of a key k:
\* depth | tag | child index, little-endian, a hardened n as n + 2^31 in 32
\* bits | chain code, and after the key bytes the diversifier key
FramesKey(b, k) ==
    /\ Len(b) = 169
    /\ b[1] = k.depth
    /\ SubSeq(b, 2, 5) = Bytes4(k.parent_fvk_tag)
    /\ b[6] + 256 * b[7] + 65536 * b[8] + 16777216 * (b[9] % 128) = k.child_index.i.lo
    /\ b[9] \div 128 = (k.child_index.i.hi + (IF k.child_index.hardened THEN 1 ELSE 0)) % 2
    /\ SubSeq(b, 10, 41) = Bytes32(k.chain_code)
    /\ SubSeq(b, 138, 169) = Bytes32(k.dk)

IsHexOf(s, b) ==
    /\ Len(s) = 2 * Len(b)
    /\ \A k \in 1..Len(b) :
          /\ s[2 * k - 1] \in { LowerHexDigits[(b[k] \div 16) + 1],
                                UpperHexDigits[(b[k] \div 16) + 1] }
          /\ s[2 * k] \in { LowerHexDigits[(b[k] % 16) + 1],
                            UpperHexDigits[(b[k] % 16) + 1] }
\* the byte strings the seed texts of the model may stand for
SeedsOfTexts == UNION { [1..n -> {0, 1, 2, 3, 10, 255}] : n \in 0..3 }

\* C21: parsing the hexadecimal text of a byte string yields exactly
\* master of those bytes; parsing a string that is not valid hexadecimal
\* returns an InvalidData error and no key, and does not abort.
C21_SeedImport ==
    last.op = "from_str" =>
        /\ status = "running"
        /\ \A b \in SeedsOfTexts :
              IsHexOf(last.s, b) =>
                  /\ last.res = Ok(ExtendedSpendingKey_master(b))
                  /\ xsk = ExtendedSpendingKey_master(b)
        /\ (\A b \in SeedsOfTexts : ~IsHexOf(last.s, b)) =>
              last.res = Err("InvalidData")

\* a key imported from text with digits of both cases
C21_Witness ==
    /\ last.op = "from_str"
    /\ last.res.ok
    /\ Len(last.s) = 4
    /\ xsk = ExtendedSpendingKey_master(<<10, 255>>)

(***************************************************************************)
(* Properties of the internal keys (Spec).                                 *)
(***************************************************************************)
\* C16: derive_internal keeps the spend authorizing key ask (and so ak), the
\* depth, the parent tag, the child index and the chain code of a spending
\* key; nothing but nsk, ovk and dk is replaced.  The same holds for a viewing
\* key, with ak in place of ask.
C16_DeriveInternalFrame ==
    last.op = "derive_internal" =>
        /\ xsk.expsk.ask = last.xsk.expsk.ask
        /\ from_expanded_spending_key(xsk.expsk).ak
               = from_expanded_spending_key(last.xsk.expsk).ak
        /\ xsk.depth = last.xsk.depth
        /\ xsk.parent_fvk_tag = last.xsk.parent_fvk_tag
        /\ xsk.child_index = last.xsk.child_index
        /\ xsk.chain_code = last.xsk.chain_code
        /\ xfvk.fvk.ak = last.xfvk.fvk.ak
        /\ xfvk.depth = last.xfvk.depth
        /\ xfvk.parent_fvk_tag = last.xfvk.parent_fvk_tag
        /\ xfvk.child_index = last.xfvk.child_index
        /\ xfvk.chain_code = last.xfvk.chain_code

\* the internal key of a child, with nsk, nk and dk all replaced
C16_Witness ==
    /\ last.op = "derive_internal"
    /\ xsk.depth = 1
    /\ xsk.expsk.nsk # last.xsk.expsk.nsk
    /\ xsk.dk # last.xsk.dk
    /\ xfvk.fvk.nk # last.xfvk.fvk.nk
    /\ xfvk.dk # last.xfvk.dk

\* C17: derive_internal commutes with the projection: the viewing key of
\* the internal spending key is the internal key of the viewing key.
C17_DeriveInternalCommutes ==
    last.op = "derive_internal" =>
        /\ last.xfvk = ExtendedFullViewingKey_from(last.xsk)
        /\ xfvk = ExtendedFullViewingKey_from(xsk)
        /\ ExtendedFullViewingKey_from(ExtendedSpendingKey_derive_internal(last.xsk))
               = ExtendedFullViewingKey_derive_internal(ExtendedFullViewingKey_from(last.xsk))

\* the internal key of a grandchild whose nullifier key moved
C17_Witness ==
    /\ last.op = "derive_internal"
    /\ last.xsk.depth = 2
    /\ xfvk.fvk.nk # last.xfvk.fvk.nk
    /\ xfvk.fvk.ovk # last.xfvk.fvk.ovk

\* C26: a child made by derive_child(i), from a spending key or from a
\* viewing key, records the child index i and, as parent tag, the first
\* bytes of the fingerprint of the parent's full viewing key (of the
\* projection of a parent spending key); the two paths record the same tag.
C26_ChildRecordsParent ==
    (last.op = "derive_child" /\ last.xres # Panic) =>
        LET fvk == from_expanded_spending_key(last.xsk.expsk)
            fp == Blake2b(ZIP32_SAPLING_FVFP_PERSONALIZATION, fvk_to_bytes(fvk))
        IN  /\ last.xres.child_index = last.i
            /\ last.xres.parent_fvk_tag = First32(fp)
            /\ last.xfvk.fvk = fvk
            /\ (last.vres # Panic /\ last.vres.ok) =>
                  /\ last.vres.val.child_index = last.i
                  /\ last.vres.val.parent_fvk_tag = First32(fp)
                  /\ last.vres.val.parent_fvk_tag = last.xres.parent_fvk_tag

\* a child of a derived key, made on both paths, whose parent tag is not
\* the tag its parent records
C26_Witness ==
    /\ last.op = "derive_child"
    /\ last.xres # Panic
    /\ last.vres.ok
    /\ last.xsk.depth >= 1
    /\ last.xres.parent_fvk_tag # last.xsk.parent_fvk_tag

(***************************************************************************)
(* Further properties of addresses (SpecAddr).                             *)
(***************************************************************************)
\* C18: address(j) yields no address whenever the diversifier key yields no
\* diversifier at j, and an address it yields carries exactly the diversifier
\* the key yields at j.
C18_AddressAtIndex ==
    last.op = "address" =>
        LET d == DiversifierKey_diversifier(xfvk.dk, last.j)
        IN  /\ ~d.some => last.res = None
            /\ last.res.some => /\ d.some
                                /\ last.res.val.diversifier = d.val

\* an address at the last index of a derived key
C18_Witness ==
    /\ last.op = "address"
    /\ last.j = MaxIndex
    /\ last.res.some
    /\ xfvk.depth >= 1

\* C19: default_address searches from index 0: the pair (k, address) it
\* returns has k the smallest index with a diversifier, diversifier(k) is
\* Some and diversifier(m) is None for every m < k, and the address is the
\* one at k.  default_address of a spending key has the outcome of
\* default_address of its projected viewing key.
C19_DefaultAddress ==
    last.op \in {"xfvk_default_address", "xsk_default_address"} =>
        /\ xfvk = ExtendedFullViewingKey_from(xsk)
        /\ last.res = ExtendedFullViewingKey_default_address(xfvk)
        /\ last.res = ExtendedSpendingKey_default_address(xsk)
        /\ last.res # Panic =>
              LET k == last.res.val[1]
                  addr == last.res.val[2]
              IN  /\ DiversifierKey_diversifier(xfvk.dk, k) = Some(addr.diversifier)
                  /\ NoneValidIn(xfvk.dk, 0, IndexValue(k) - 1)
                  /\ ExtendedFullViewingKey_address(xfvk, k) = Some(addr)

\* a default address of a spending key found above index 0
C19_Witness ==
    /\ last.op = "xsk_default_address"
    /\ last.res # Panic
    /\ IndexValue(last.res.val[1]) > 0

C13_IncrementSaturates ==
    last.op = "increment" =>
        /\ IndexValue(last.res.j) >= IndexValue(last.j)
        /\ last.j = MaxIndex =>
              /\ ~last.res.ok
              /\ last.res.j = MaxIndex

\* C25: increment adds 1 to the little-endian counter, carrying byte by
\* byte: from every index below the all-0xFF one it returns Ok and leaves
\* the next index, and it returns Err exactly on the all-0xFF index.
C25_IncrementAddsOne ==
    last.op = "increment" =>
        /\ IndexValue(last.j) < IndexCount - 1 =>
              /\ last.res.ok
              /\ IndexValue(last.res.j) = IndexValue(last.j) + 1
        /\ ~last.res.ok <=> last.j = MaxIndex

\* an increment that carried into the second byte
C25_Witness ==
    /\ last.op = "increment"
    /\ last.j[1] = 255
    /\ last.res.ok
    /\ last.res.j[1] = 0
    /\ last.res.j[2] = last.j[2] + 1

(***************************************************************************)
(* Determinism (SpecDet).                                                  *)
(***************************************************************************)
\* the recorded call, made again on its recorded arguments, has the
\* recorded result
Replayed ==
    CASE last.op = "master" ->
            /\ xsk = ExtendedSpendingKey_master(last.seed)
            /\ xfvk = ExtendedFullViewingKey_from(xsk)
      [] last.op = "derive_child" ->
            /\ last.xres = ExtendedSpendingKey_derive_child(last.xsk, last.i)
            /\ last.vres = ExtendedFullViewingKey_derive_child(last.xfvk, last.i)
            /\ status = "running" =>
                  /\ xsk = last.xres
                  /\ xfvk = ExtendedFullViewingKey_from(xsk)
      [] last.op = "derive_internal" ->
            /\ xsk = ExtendedSpendingKey_derive_internal(last.xsk)
            /\ xfvk = ExtendedFullViewingKey_derive_internal(last.xfvk)
      [] last.op = "write" ->
            /\ last.xser = ExtendedSpendingKey_write(xsk)
            /\ last.vser = ExtendedFullViewingKey_write(xfvk)
      [] last.op = "address" ->
            last.res = ExtendedFullViewingKey_address(xfvk, last.j)
      [] last.op = "diversifier" ->
            last.res = DiversifierKey_diversifier(last.dk, last.j)
      [] last.op = "find_diversifier" ->
            last.res = DiversifierKey_find_diversifier(last.dk, last.j)
      [] OTHER -> TRUE

RECURSIVE PairsTotal(_, _, _)
PairsTotal(l, t, k) ==
    IF k > Len(l) THEN 0
    ELSE (IF l[k][1] = t THEN l[k][2] ELSE 0) + PairsTotal(l, t, k + 1)
\* the Amount that holds v(t) for every asset t for which v(t) is not 0
AmountOf(v(_)) ==
    [t \in {u \in AssetTypes : v(u) # 0} |-> v(t)]

\* C22: construction and decoding accept exactly the valid range.
\* from(asset, v) succeeds iff -MAX_MONEY <= v <= MAX_MONEY,
\* from_nonnegative(asset, v) iff 0 <= v <= MAX_MONEY, both give zero() for
\* v = 0 and the single component v otherwise; read of a well-formed list of
\* valid asset identifiers returns an error when some component is
\* MAX_MONEY + 1 or -MAX_MONEY - 1, and decodes a list of in-range
\* components of distinct assets to the Amount from builds of them.
C22_ConstructionAndDecoding ==
    /\ last.op = "from" =>
          /\ last.res.ok <=> (-MAX_MONEY <= last.v /\ last.v <= MAX_MONEY)
          /\ last.res.ok =>
                last.res.val = AmountOf(LAMBDA t : IF t = last.t THEN last.v ELSE 0)
    /\ last.op = "from_nonnegative" =>
          /\ last.res.ok <=> (0 <= last.v /\ last.v <= MAX_MONEY)
          /\ last.res.ok =>
                last.res.val = AmountOf(LAMBDA t : IF t = last.t THEN last.v ELSE 0)
    /\ ( /\ last.op = "read"
         /\ last.cut = 0
         /\ \A k \in 1..Len(last.pairs) : last.pairs[k][1] \in AssetTypes ) =>
          IF \E k \in 1..Len(last.pairs) :
                last.pairs[k][2] \in {MAX_MONEY + 1, -MAX_MONEY - 1}
          THEN last.res # Panic /\ ~last.res.val.ok
          ELSE ( \A j, k \in 1..Len(last.pairs) :
                    j # k => last.pairs[j][1] # last.pairs[k][1] ) =>
                  last.res = Val(Ok(AmountOf(LAMBDA t : PairsTotal(last.pairs, t, 1))))

C24_NoZeroComponent ==
    /\ \A t \in DOMAIN amt : amt[t] # 0
    /\ \A k \in 1..Len(Amount_components(amt)) : Amount_components(amt)[k][2] # 0
    /\ \A k \in 1..Len(Amount_asset_types(amt)) :
          Amount_index(amt, Amount_asset_types(amt)[k]) # 0
    /\ last.op = "mul" /\ last.res # Panic =>
          ( (\A t \in AssetTypes : Amount_index(last.res.val, t) = 0)
                => last.res.val = Amount_zero )

\* C28: serialization round trip.  For the Amount a held after any sequence
\* of from, add, sub and mul (and the other operations), read of the bytes
\* a.write produces succeeds and returns an Amount equal to a; the bytes are
\* the number of stored components followed, for each stored component in
\* turn, by the 32-byte asset identifier and the 8-byte little-endian
\* signed amount.
C28_WriteReadRoundTrip ==
    last.op = "write_read" =>
        LET cs == Amount_components(last.a)
        IN  /\ Len(last.bytes) = 1 + 40 * Len(cs)
            /\ last.bytes[1] = Cardinality(DOMAIN last.a)
            /\ \A k \in 1..Len(cs) :
                  /\ SubSeq(last.bytes, 40 * k - 38, 40 * k - 7) = Bytes32(cs[k][1])
                  /\ SubSeq(last.bytes, 40 * k - 6, 40 * k + 1) = i64_to_le_bytes(cs[k][2])
            /\ last.res = Val(Ok(last.a))

\* C29: the ordering is component-wise.  a.partial_cmp(b) is Equal iff a and
\* b hold the same value for every asset, Less iff every value of a is <=
\* that of b and one is smaller, Greater symmetrically, None when one asset
\* is larger in a and another larger in b; and it is Equal exactly when
\* a == b.
C29_ComponentwiseOrder ==
    last.op = "partial_cmp" =>
        LET va(t) == Amount_index(last.a, t)
            vb(t) == Amount_index(last.b, t)
            same == \A t \in AssetTypes : va(t) = vb(t)
            le == \A t \in AssetTypes : va(t) <= vb(t)
            ge == \A t \in AssetTypes : va(t) >= vb(t)
        IN  /\ last.res # Panic
            /\ last.res = Val(Some("Equal")) <=> same
            /\ last.res = Val(Some("Less")) <=> (le /\ ~same)
            /\ last.res = Val(Some("Greater")) <=> (ge /\ ~same)
            /\ last.res = Val(None) <=> (~le /\ ~ge)
            /\ last.res = Val(Some("Equal")) <=> (last.a = last.b)

\* C30: project and reject partition an Amount by asset.  a.project(t) holds
\* a's value for t and nothing else, a.reject(t) holds no component for t
\* and a's value for every other asset, neither call fails, and
\* a.project(t) + a.reject(t) == a.
C30_ProjectRejectPartition ==
    /\ last.op = "project" =>
          /\ last.res # Panic
          /\ DOMAIN last.res.val \subseteq {last.t}
          /\ Amount_index(last.res.val, last.t) = Amount_index(last.a, last.t)
          /\ Amount_index(last.a, last.t) = 0 => last.res.val = Amount_zero
    /\ last.op = "reject" =>
          /\ last.res # Panic
          /\ last.t \notin DOMAIN last.res.val
          /\ \A u \in AssetTypes \ {last.t} :
                Amount_index(last.res.val, u) = Amount_index(last.a, u)
          /\ last.sum = Val(last.a)

====
